---------------------------- MODULE Spec2Model ----------------------------
(***************************************************************************)
(* A model of dayz_server_manager.py: the manager-config loader, the       *)
(* mod-list parser, the content installer, the server launcher and the     *)
(* orchestrator (main).                                                    *)
(*                                                                         *)
(* Text is modelled as a sequence of tokens.  A token is either one of the *)
(* characters the program looks for (space, newline, '#', '=', '"', ',')   *)
(* or a word: a maximal run of other characters, kept as one string.       *)
(* Python's None is the empty tuple and a present value x is <<x>>.        *)
(***************************************************************************)
EXTENDS Integers, Sequences, FiniteSets, TLC

VARIABLES
    cfgFile,    \* manager.cfg on disk: [exists, lines]
    cfgWant,    \* what the author of manager.cfg wrote: [wellFormed, record]
    globals,    \* the module-level configuration globals (lines 11-15)
    cfgOut,     \* outcome of the last load_manager_config call
    modsFile,   \* the mod-list file handed to parse_modslist: [exists, lines]
    modsWant,   \* what the author of the mod list wrote, line by line
    parseOut,   \* outcome of the last parse_modslist call
    modslist,   \* the mapping handed to install_mods and run_server
    cache,      \* the workshop cache under the tool directory
    inst,       \* the install directory
    ipc,        \* install_mods: "idle", "loop", "returned" or "raised"
    idx,        \* install_mods: 1-based position of the loop in the mapping
    outcomes,   \* install_mods: what this run did with each entry so far
    startInst,  \* the install directory when this run of install_mods began
    prev,       \* the run of install_mods before this one
    runs,       \* number of runs of install_mods begun
    proc,       \* what the server process does when started
    srvOut,     \* outcome of the last run_server call
    disk,       \* the other paths main looks at
    pc,         \* main: the orchestrator's state
    trace,      \* main: the states the run has been through
    exc,        \* main: the exception that left the try block, "" if none
    diag        \* main: TRUE once the except block has printed

cfgVars == <<cfgFile, cfgWant, globals, cfgOut>>
parseVars == <<modsFile, modsWant, parseOut>>
instVars == <<modslist, cache, inst, ipc, idx, outcomes, startInst, prev, runs>>
srvVars == <<proc, srvOut>>
mainVars == <<disk, pc, trace, exc, diag>>

vars == <<cfgVars, parseVars, instVars, srvVars, mainVars>>

---------------------------------------------------------------------------
(* Python values and string primitives                                     *)

None == <<>>
Some(x) == <<x>>

SP == " "
NL == "\n"
HASH == "#"
EQ == "="
QUOTE == "\""
COMMA == ","

Whitespace == {SP, NL}

\* words that int() accepts, with their values
IntWords == {"1", "2", "223350", "221100"}
IntOf(w) ==
    CASE w = "1" -> 1
      [] w = "2" -> 2
      [] w = "223350" -> 223350
      [] w = "221100" -> 221100

\* words holding a character outside [a-zA-Z0-9_\-. ]
UnsafeWords == {"C:/tools", "C:/server", "a/b"}

RECURSIVE lstrip(_, _)
lstrip(s, cs) ==
    IF s = <<>> \/ Head(s) \notin cs THEN s ELSE lstrip(Tail(s), cs)

RECURSIVE rstrip(_, _)
rstrip(s, cs) ==
    IF s = <<>> \/ s[Len(s)] \notin cs THEN s
    ELSE rstrip(SubSeq(s, 1, Len(s) - 1), cs)

\* str.strip(): drops leading and trailing whitespace
strip(s) == rstrip(lstrip(s, Whitespace), Whitespace)

\* str.strip('"'): drops every leading and trailing double quote
strip_quotes(s) == rstrip(lstrip(s, {QUOTE}), {QUOTE})

\* str.find(ch): 0-based index of the first ch, or -1
find(s, ch) ==
    IF \E i \in 1..Len(s) : s[i] = ch
    THEN (CHOOSE i \in 1..Len(s) :
              s[i] = ch /\ \A j \in 1..(i - 1) : s[j] # ch) - 1
    ELSE -1

\* s[:n]
prefix(s, n) == SubSeq(s, 1, n)

RECURSIVE split(_, _)
split(s, sep) ==
    LET i == find(s, sep) IN
    IF i < 0 THEN <<s>>
    ELSE <<prefix(s, i)>> \o split(SubSeq(s, i + 2, Len(s)), sep)

\* int(s): surrounding whitespace is accepted, anything else must be digits
int(s) ==
    LET t == strip(s) IN
    IF Len(t) = 1 /\ t[1] \in IntWords THEN Some(IntOf(t[1])) ELSE None

Range(s) == {s[i] : i \in 1..Len(s)}

\* "if not x" for x a string or None
falsy(x) == x = None \/ x[1] = <<>>

---------------------------------------------------------------------------
(* lines 21-32                                                             *)

remove_comments(line) ==
    LET comment_index == find(line, HASH) IN
    IF comment_index >= 0
    THEN IF comment_index = 0 THEN Some(<<>>)
         ELSE Some(prefix(line, comment_index))
    ELSE None    \* no return statement is reached

try_cast_str_to_int(value) == int(value)

---------------------------------------------------------------------------
(* lines 10-15 and 34-69: the configuration globals and their loader       *)

ConfigKeys == {"steamcmd_dir", "install_dir", "server_app_id", "game_app_id", "username"}
CheckOrder == <<"steamcmd_dir", "install_dir", "server_app_id", "game_app_id", "username">>

NoConfig == [k \in ConfigKeys |-> None]

\* the name of the first unset variable in check order, or None
check_global_vars(g) ==
    IF \E i \in 1..Len(CheckOrder) : g[CheckOrder[i]] = None
    THEN Some(CheckOrder[CHOOSE i \in 1..Len(CheckOrder) :
                  /\ g[CheckOrder[i]] = None
                  /\ \A j \in 1..(i - 1) : g[CheckOrder[j]] # None])
    ELSE None

\* one iteration of the loop of load_manager_config over the function's
\* local variables; [exc, locals]
ConfigLine(rawline, locals) ==
    LET line == remove_comments(strip(rawline)) IN
    IF falsy(line) THEN [exc |-> "", locals |-> locals]
    ELSE
      LET parts == split(line[1], EQ) IN
      IF Len(parts) # 2 THEN [exc |-> "ValueError", locals |-> locals]
      ELSE
        LET key == strip(parts[1])
            value == strip_quotes(strip(parts[2]))
        IN
        IF key \in {<<"steamcmd_dir">>, <<"install_dir">>, <<"username">>}
        THEN [exc |-> "", locals |-> [locals EXCEPT ![key[1]] = Some(value)]]
        ELSE IF key \in {<<"server_app_id">>, <<"game_app_id">>}
        THEN [exc |-> "",
              locals |-> [locals EXCEPT ![key[1]] = try_cast_str_to_int(value)]]
        ELSE [exc |-> "", locals |-> locals]

RECURSIVE ConfigLoop(_, _, _)
ConfigLoop(lines, i, locals) ==
    IF i > Len(lines) THEN [exc |-> "", locals |-> locals]
    ELSE LET r == ConfigLine(lines[i] \o <<NL>>, locals) IN
         IF r.exc # "" THEN r ELSE ConfigLoop(lines, i + 1, r.locals)

\* The assignments of lines 58-67 have no global declaration: they bind
\* names local to the function, the module-level variables keep their
\* values, and check_global_vars reads the module-level variables.
load_manager_config(file, g) ==
    IF ~file.exists
    THEN [exc |-> "FileNotFoundError", missing |-> None, locals |-> NoConfig, globals |-> g]
    ELSE
      LET r == ConfigLoop(file.lines, 1, NoConfig) IN
      IF r.exc # ""
      THEN [exc |-> r.exc, missing |-> None, locals |-> r.locals, globals |-> g]
      ELSE LET m == check_global_vars(g) IN
           [exc |-> IF m = None THEN "" ELSE "ValueError",
            missing |-> m, locals |-> r.locals, globals |-> g]

---------------------------------------------------------------------------
(* lines 150-174: the mod-list parser.  A dict is a sequence of            *)
(* <<key, value>> pairs with distinct keys, in insertion order.            *)

is_valid_file_name(name) ==
    /\ name # <<>>
    /\ \A i \in 1..Len(name) :
          name[i] \notin ({NL, HASH, EQ, QUOTE, COMMA} \cup UnsafeWords)

DictKeys(d) == {d[i][1] : i \in 1..Len(d)}

DictGet(d, k) == d[CHOOSE i \in 1..Len(d) : d[i][1] = k][2]

\* d[k] = v: an existing key keeps its position
DictSet(d, k, v) ==
    IF k \in DictKeys(d)
    THEN [i \in 1..Len(d) |-> IF d[i][1] = k THEN <<k, v>> ELSE d[i]]
    ELSE Append(d, <<k, v>>)

\* one iteration of the loop of parse_modslist; [exc, why, data]
ModsLine(rawline, data) ==
    LET line == remove_comments(strip(rawline)) IN
    IF falsy(line) THEN [exc |-> "", why |-> "", data |-> data]
    ELSE
      LET elements == split(line[1], COMMA) IN
      IF Len(elements) # 2
      THEN [exc |-> "ValueError", why |-> "Invalid line format", data |-> data]
      ELSE
        LET key == int(strip(elements[1]))
            value == strip(elements[2])
        IN
        IF key = None
        THEN [exc |-> "ValueError", why |-> "Invalid workshop ID", data |-> data]
        ELSE IF ~is_valid_file_name(value)
        THEN [exc |-> "ValueError", why |-> "Invalid mod name", data |-> data]
        ELSE [exc |-> "", why |-> "", data |-> DictSet(data, key[1], value)]

RECURSIVE ModsLoop(_, _, _)
ModsLoop(lines, i, data) ==
    IF i > Len(lines) THEN [exc |-> "", why |-> "", data |-> data]
    ELSE LET r == ModsLine(lines[i] \o <<NL>>, data) IN
         IF r.exc # "" THEN r ELSE ModsLoop(lines, i + 1, r.data)

\* [exc, why, data]; nothing is returned when an exception is raised
parse_modslist(file) ==
    IF ~file.exists
    THEN [exc |-> "FileNotFoundError", why |-> "", data |-> <<>>]
    ELSE LET r == ModsLoop(file.lines, 1, <<>>) IN
         IF r.exc # "" THEN [r EXCEPT !.data = <<>>] ELSE r

---------------------------------------------------------------------------
(* lines 219-249: the content installer.                                   *)
(* The workshop cache is a function from content id to                     *)
(* [exists, keysDir, files], files a function from the relative paths      *)
(* under keys/ to file contents.  The install directory is                 *)
(* [exists, links, keys], links a function from link name to the content   *)
(* id whose directory the link points at, keys a function from relative    *)
(* path under keys/ to file contents.                                      *)

\* a copy that overwrites what the destination already holds
quick_copy_overwriting(source, destination) ==
    [f \in (DOMAIN destination) \cup (DOMAIN source) |->
        IF f \in DOMAIN source THEN source[f] ELSE destination[f]]

\* the destination after quick_copy_recursive(source, destination)
quick_copy_recursive(source, destination) ==
    [f \in (DOMAIN destination) \cup (DOMAIN source) |->
        IF f \in DOMAIN destination THEN destination[f] ELSE source[f]]

\* an iteration without the test of line 238: the link is made whether or
\* not the content directory exists
InstallEntryUnguarded(dir, wcache, entry) ==
    LET workshop_id == entry[1]
        mod_name == entry[2]
        item == wcache[workshop_id]
    IN
    IF ~dir.exists
    THEN [exc |-> "FileNotFoundError", inst |-> dir, outcome |-> "raised"]
    ELSE IF mod_name \in DOMAIN dir.links
    THEN [exc |-> "FileExistsError", inst |-> dir, outcome |-> "raised"]
    ELSE
      LET linked == [dir EXCEPT !.links =
                        [n \in (DOMAIN dir.links) \cup {mod_name} |->
                            IF n = mod_name THEN workshop_id ELSE dir.links[n]]]
      IN
      [exc |-> "",
       inst |-> IF item.keysDir
                THEN [linked EXCEPT !.keys = quick_copy_recursive(item.files, dir.keys)]
                ELSE linked,
       outcome |-> "installed"]

\* one iteration of the loop of install_mods; [exc, inst, outcome]
InstallEntry(dir, wcache, entry) ==
    LET workshop_id == entry[1]
        mod_name == entry[2]
        item == wcache[workshop_id]
    IN
    IF ~item.exists
    THEN [exc |-> "", inst |-> dir, outcome |-> "skipped"]
    ELSE IF ~dir.exists
    THEN [exc |-> "FileNotFoundError", inst |-> dir, outcome |-> "raised"]
    ELSE IF mod_name \in DOMAIN dir.links
    THEN [exc |-> "FileExistsError", inst |-> dir, outcome |-> "raised"]
    ELSE
      LET linked == [dir EXCEPT !.links =
                        [n \in (DOMAIN dir.links) \cup {mod_name} |->
                            IF n = mod_name THEN workshop_id ELSE dir.links[n]]]
      IN
      [exc |-> "",
       inst |-> IF item.keysDir
                THEN [linked EXCEPT !.keys = quick_copy_recursive(item.files, dir.keys)]
                ELSE linked,
       outcome |-> "installed"]

RECURSIVE InstallLoop(_, _, _, _, _)
InstallLoop(dir, wcache, list, i, done) ==
    IF i > Len(list) THEN [exc |-> "", inst |-> dir, outcomes |-> done]
    ELSE LET r == InstallEntry(dir, wcache, list[i]) IN
         IF r.exc # ""
         THEN [exc |-> r.exc, inst |-> r.inst, outcomes |-> Append(done, r.outcome)]
         ELSE InstallLoop(r.inst, wcache, list, i + 1, Append(done, r.outcome))

\* [exc, inst, outcomes]
install_mods(dir, wcache, list) == InstallLoop(dir, wcache, list, 1, <<>>)

---------------------------------------------------------------------------
(* lines 252-270: the server launcher                                      *)

\* the loop of lines 258-262; first is never assigned in the loop
RECURSIVE ModsArg(_, _, _)
ModsArg(list, i, first) ==
    IF i > Len(list) THEN <<>>
    ELSE (IF first THEN <<"@">> \o list[i][2] ELSE <<";", "@">> \o list[i][2])
         \o ModsArg(list, i + 1, first)

\* result is what the server process does: "exit0", "nonzero" or "missing"
\* (the executable cannot be started).  [exc, hasModArg, mods, printed]
run_server(list, result) ==
    LET hasModArg == Len(list) > 0
        mods == IF hasModArg THEN ModsArg(list, 1, TRUE) ELSE <<>>
    IN
    [exc |-> IF result = "missing" THEN "FileNotFoundError" ELSE "",
     hasModArg |-> hasModArg,
     mods |-> mods,
     printed |-> IF result = "nonzero" THEN "Game error" ELSE ""]

---------------------------------------------------------------------------
(* Inputs: manager.cfg files                                               *)

Variants == {"none", "plain", "comment", "bad"}
Users == {"bob", "amy"}
ExtraLines == {"none", "blank", "hash", "unknown", "junk", "junk#"}

\* the value of key k as written in the file
Written(k, u) ==
    CASE k = "steamcmd_dir" -> <<QUOTE, "C:/tools", QUOTE>>
      [] k = "install_dir" -> <<QUOTE, "C:/server", QUOTE>>
      [] k = "server_app_id" -> <<"223350">>
      [] k = "game_app_id" -> <<"221100">>
      [] k = "username" -> <<QUOTE, u, QUOTE>>

\* the value the author means by it: trimmed and unquoted
Meant(k, u) ==
    CASE k = "steamcmd_dir" -> Some(<<"C:/tools">>)
      [] k = "install_dir" -> Some(<<"C:/server">>)
      [] k = "server_app_id" -> Some(223350)
      [] k = "game_app_id" -> Some(221100)
      [] k = "username" -> Some(<<u>>)

\* the lines written for key k
KeyLines(k, v, u) ==
    CASE v = "none" -> <<>>
      [] v = "plain" -> << <<k, SP, EQ, SP>> \o Written(k, u) >>
      [] v = "comment" -> << <<k, SP, EQ, SP>> \o Written(k, u) \o <<SP, HASH, SP, "note">> >>
      [] v = "bad" -> << <<k, SP, EQ, SP, "abc", SP, HASH, SP, "note">> >>

ExtraLine(x) ==
    CASE x = "none" -> <<>>
      [] x = "blank" -> << <<SP>> >>
      [] x = "hash" -> << <<SP, HASH, SP, "note">> >>
      [] x = "unknown" -> << <<"port", SP, EQ, SP, "1", SP, HASH, SP, "note">> >>
      [] x = "junk" -> << <<"junk">> >>
      [] x = "junk#" -> << <<"junk", SP, HASH, SP, "note">> >>

ConfigLines(v, u, x) ==
    ExtraLine(x) \o KeyLines("steamcmd_dir", v["steamcmd_dir"], u)
                 \o KeyLines("install_dir", v["install_dir"], u)
                 \o KeyLines("server_app_id", v["server_app_id"], u)
                 \o KeyLines("game_app_id", v["game_app_id"], u)
                 \o KeyLines("username", v["username"], u)

\* every non-blank line is a key = value pair, all five keys are set and
\* the two application ids are integers
WellFormed(v, x) ==
    /\ x \in {"none", "blank", "hash"}
    /\ \A k \in ConfigKeys : v[k] \in {"plain", "comment"}

ConfigShapes ==
    {v \in [ConfigKeys -> Variants] :
        \A k \in {"steamcmd_dir", "install_dir", "username"} : v[k] # "bad"}

NotCalled == [called |-> FALSE]

InitCfgIdle ==
    /\ cfgFile = [exists |-> FALSE, lines |-> <<>>]
    /\ cfgWant = [wellFormed |-> FALSE, record |-> NoConfig]
    /\ globals = NoConfig
    /\ cfgOut = NotCalled

InitParseIdle ==
    /\ modsFile = [exists |-> FALSE, lines |-> <<>>]
    /\ modsWant = <<>>
    /\ parseOut = NotCalled

NoRun == [ran |-> FALSE]
EmptyDir == [exists |-> TRUE, links |-> <<>>, keys |-> <<>>]

InitInstIdle ==
    /\ modslist = <<>>
    /\ cache = <<>>
    /\ inst = EmptyDir
    /\ ipc = "idle"
    /\ idx = 0
    /\ outcomes = <<>>
    /\ startInst = EmptyDir
    /\ prev = NoRun
    /\ runs = 0

InitSrvIdle ==
    /\ proc = "exit0"
    /\ srvOut = NotCalled

InitMainIdle ==
    /\ disk = [steamcmdDir |-> FALSE, steamcmdExe |-> FALSE,
               serverCfg |-> FALSE, modsCsv |-> FALSE]
    /\ pc = "idle"
    /\ trace = <<>>
    /\ exc = ""
    /\ diag = FALSE

---------------------------------------------------------------------------
(* The configuration loader run on a manager.cfg                           *)

InitConfig ==
    /\ \/ /\ cfgFile = [exists |-> FALSE, lines |-> <<>>]
          /\ cfgWant = [wellFormed |-> FALSE, record |-> NoConfig]
       \/ \E v \in ConfigShapes, u \in Users, x \in ExtraLines :
             /\ cfgFile = [exists |-> TRUE, lines |-> ConfigLines(v, u, x)]
             /\ cfgWant = [wellFormed |-> WellFormed(v, x),
                           record |-> [k \in ConfigKeys |->
                                         IF v[k] \in {"plain", "comment"}
                                         THEN Meant(k, u) ELSE None]]
    /\ globals = NoConfig
    /\ cfgOut = NotCalled
    /\ InitParseIdle /\ InitInstIdle /\ InitSrvIdle /\ InitMainIdle

CallLoadManagerConfig ==
    /\ ~cfgOut.called
    /\ LET r == load_manager_config(cfgFile, globals) IN
         /\ globals' = r.globals
         /\ cfgOut' = [called |-> TRUE, exc |-> r.exc, missing |-> r.missing,
                       locals |-> r.locals]
    /\ UNCHANGED <<cfgFile, cfgWant, parseVars, instVars, srvVars, mainVars>>

NextConfig == CallLoadManagerConfig

SpecConfig == InitConfig /\ [][NextConfig]_vars

\* C1: after load_manager_config has run on a manager config file whose
\* non-blank lines are well-formed key = value pairs setting all five keys,
\* the call has completed without error and every configuration global
\* holds the trimmed, unquoted value from the file.
C1_ConfigRecordLoaded ==
    (cfgOut.called /\ cfgWant.wellFormed) =>
        (cfgOut.exc = "" /\ globals = cfgWant.record)

---------------------------------------------------------------------------
(* The mod-list parser run on a mod-list file                              *)

MaxLines == 2

IdWords == {"1", "2"}
SafeNames == {<<"A">>, <<"B">>, <<"My", SP, "Mod">>}

\* a line "<int>, <name>", with or without a trailing comment
GoodLines ==
    [kind : {"entry"}, id : IdWords, name : SafeNames, comment : BOOLEAN]

OtherLines ==
    [kind : {"blank", "hash", "badId", "badName", "threeFields"},
     id : {"1"}, name : {<<"A">>}, comment : BOOLEAN]

LineShapes == GoodLines \cup OtherLines

Comment(l) == IF l.comment THEN <<SP, HASH, SP, "note">> ELSE <<>>

LineText(l) ==
    CASE l.kind = "entry" -> <<l.id, COMMA, SP>> \o l.name \o Comment(l)
      [] l.kind = "blank" -> <<SP>>
      [] l.kind = "hash" -> <<HASH, "note">>
      [] l.kind = "badId" -> <<"abc", COMMA, SP, "Foo">> \o Comment(l)
      [] l.kind = "badName" -> <<"1", COMMA, SP, "a/b">> \o Comment(l)
      [] l.kind = "threeFields" -> <<"1", COMMA, "A", COMMA, "B">> \o Comment(l)

ModFiles == UNION {[1..n -> LineShapes] : n \in 0..MaxLines}

InitParse ==
    /\ \E w \in ModFiles :
          /\ modsWant = w
          /\ modsFile = [exists |-> TRUE,
                         lines |-> [i \in 1..Len(w) |-> LineText(w[i])]]
    /\ parseOut = NotCalled
    /\ InitCfgIdle /\ InitInstIdle /\ InitSrvIdle /\ InitMainIdle

CallParseModslist ==
    /\ ~parseOut.called
    /\ LET r == parse_modslist(modsFile) IN
         parseOut' = [called |-> TRUE, exc |-> r.exc, why |-> r.why, data |-> r.data]
    /\ UNCHANGED <<modsFile, modsWant, cfgVars, instVars, srvVars, mainVars>>

NextParse == CallParseModslist

SpecParse == InitParse /\ [][NextParse]_vars

\* the lines of the file that are skipped when only lines empty after
\* comment stripping and trimming are skipped
SkippedLines(w) == {i \in 1..Len(w) : w[i].kind \in {"blank", "hash"}}

EntryLines(w) == {i \in 1..Len(w) : w[i].kind = "entry"}

\* C2: after parse_modslist has run on a mod-list file whose lines are
\* entries "<int>, <name>" with a safe name (with or without a trailing
\* comment), blank lines or comment lines, the call has returned a mapping
\* that holds id -> name for every entry line (the last line of an id
\* giving its name) and nothing else.
C2_EntriesParsed ==
    (/\ parseOut.called
     /\ EntryLines(modsWant) \cup SkippedLines(modsWant) = 1..Len(modsWant)) =>
        /\ parseOut.exc = ""
        /\ DictKeys(parseOut.data) = {IntOf(modsWant[i].id) : i \in EntryLines(modsWant)}
        /\ \A i \in EntryLines(modsWant) :
              (\A j \in EntryLines(modsWant) : j > i => modsWant[j].id # modsWant[i].id)
                  => DictGet(parseOut.data, IntOf(modsWant[i].id)) = modsWant[i].name

---------------------------------------------------------------------------
(* Runs of the content installer, with the external fetch between runs     *)

MaxRuns == 2
MaxMods == 2

ModIds == 1..MaxMods
ModNames == {<<"A">>, <<"B">>}
KeyFiles == {"K.bikey"}
Contents == {"x", "y"}

\* sequences of at most n entries, each an id with a name
RECURSIVE Mappings(_, _)
Mappings(n, names) ==
    IF n = 0 THEN {<<>>}
    ELSE LET shorter == Mappings(n - 1, names) IN
         shorter \cup
         {Append(m, <<i, nm>>) :
             m \in {x \in shorter : Len(x) = n - 1}, i \in ModIds, nm \in names}

\* the dicts: no id twice
ModLists == {m \in Mappings(MaxMods, ModNames) : Cardinality(DictKeys(m)) = Len(m)}

Absent == [exists |-> FALSE, keysDir |-> FALSE, files |-> <<>>]

\* a fetched content directory: without keys/, or with keys/ holding files
Fetched ==
    {[exists |-> TRUE, keysDir |-> FALSE, files |-> <<>>]} \cup
    {[exists |-> TRUE, keysDir |-> TRUE, files |-> f] : f \in [KeyFiles -> Contents]}

InitInstall ==
    /\ modslist \in ModLists
    /\ cache \in [ModIds -> {Absent} \cup Fetched]
    /\ inst \in {[exists |-> FALSE, links |-> <<>>, keys |-> <<>>]} \cup
                {[exists |-> TRUE, links |-> <<>>, keys |-> k] :
                    k \in UNION {[d -> Contents] : d \in SUBSET KeyFiles}}
    /\ ipc = "idle"
    /\ idx = 0
    /\ outcomes = <<>>
    /\ startInst = inst
    /\ prev = NoRun
    /\ runs = 0
    /\ InitCfgIdle /\ InitParseIdle /\ InitSrvIdle /\ InitMainIdle

\* install_mods is called (lines 231-233)
InstallCall ==
    /\ ipc # "loop"
    /\ runs < MaxRuns
    /\ prev' = IF runs = 0 THEN NoRun
               ELSE [ran |-> TRUE, raised |-> "raised" \in Range(outcomes),
                     outcomes |-> outcomes,
                     inst |-> inst, cache |-> cache]
    /\ runs' = runs + 1
    /\ ipc' = "loop"
    /\ idx' = 1
    /\ outcomes' = <<>>
    /\ startInst' = inst
    /\ UNCHANGED <<modslist, cache, inst, cfgVars, parseVars, srvVars, mainVars>>

\* one iteration of the loop (lines 235-248)
InstallStep ==
    /\ ipc = "loop"
    /\ idx <= Len(modslist)
    /\ LET r == InstallEntry(inst, cache, modslist[idx]) IN
         /\ inst' = r.inst
         /\ outcomes' = Append(outcomes, r.outcome)
         /\ ipc' = IF r.exc # "" THEN "raised" ELSE "loop"
         /\ idx' = IF r.exc # "" THEN idx ELSE idx + 1
    /\ UNCHANGED <<modslist, cache, startInst, prev, runs,
                   cfgVars, parseVars, srvVars, mainVars>>

\* the loop is exhausted and install_mods returns (line 249)
InstallReturn ==
    /\ ipc = "loop"
    /\ idx > Len(modslist)
    /\ ipc' = "returned"
    /\ UNCHANGED <<modslist, cache, inst, idx, outcomes, startInst, prev, runs,
                   cfgVars, parseVars, srvVars, mainVars>>

\* between runs, the external fetch tool creates a content directory
ExternalFetch ==
    /\ ipc \in {"idle", "returned", "raised"}
    /\ runs \in 1..(MaxRuns - 1)
    /\ \E i \in ModIds, item \in Fetched :
          /\ ~cache[i].exists
          /\ cache' = [cache EXCEPT ![i] = item]
    /\ ipc' = "idle"
    /\ UNCHANGED <<modslist, inst, idx, outcomes, startInst, prev, runs,
                   cfgVars, parseVars, srvVars, mainVars>>

NextInstall == InstallCall \/ InstallStep \/ InstallReturn \/ ExternalFetch

SpecInstall == InitInstall /\ [][NextInstall]_vars

RunOver == ipc \in {"returned", "raised"}

\* entry i of the mapping has its link and its keys under the install root
Installed(i) ==
    LET id == modslist[i][1]
        name == modslist[i][2]
    IN
    /\ name \in DOMAIN inst.links
    /\ inst.links[name] = id
    /\ cache[id].keysDir => DOMAIN cache[id].files \subseteq DOMAIN inst.keys

\* C3: when install_mods has run a second time against the source tree the
\* first run saw, the second run has completed without raising and the
\* install directory is as the first run left it.
C3_SecondRunIdempotent ==
    (RunOver /\ prev.ran /\ ~prev.raised /\ prev.cache = cache) =>
        (ipc = "returned" /\ inst = prev.inst)

\* C4: when a run that installed some entries and skipped others for want
\* of their source directory is followed by a run made after the external
\* fetch, every entry skipped before whose source directory now exists has
\* its link and its keys under the install root.
C4_RetryInstallsSkipped ==
    (/\ RunOver /\ prev.ran /\ ~prev.raised
     /\ \A i, j \in 1..Len(modslist) : i # j => modslist[i][2] # modslist[j][2]
     /\ \E j \in 1..Len(prev.outcomes) : prev.outcomes[j] = "installed") =>
        \A i \in 1..Len(prev.outcomes) :
            (prev.outcomes[i] = "skipped" /\ cache[modslist[i][1]].exists)
                => Installed(i)

\* the loop is at an entry whose source directory does not exist
AtAbsentSource ==
    /\ ipc = "loop"
    /\ idx <= Len(modslist)
    /\ ~cache[modslist[idx][1]].exists

\* C9: the iteration for an entry whose source directory does not exist
\* leaves the install directory as it was (no link, no key file), raises
\* nothing and moves the loop to the following entry.
C9_AbsentSourceSkipped ==
    [][AtAbsentSource =>
          /\ inst' = inst
          /\ ipc' = "loop"
          /\ idx' = idx + 1
          /\ outcomes' = Append(outcomes, "skipped")]_vars

\* an entry was skipped and a following entry was then installed
C9_Witness ==
    \E i, j \in 1..Len(outcomes) :
        /\ i < j
        /\ outcomes[i] = "skipped"
        /\ ~cache[modslist[i][1]].exists
        /\ modslist[i][2] \notin DOMAIN inst.links
        /\ outcomes[j] = "installed"

\* the entries of the mapping whose source directory carries keys/f
Carriers(f) ==
    {i \in 1..Len(modslist) :
        LET item == cache[modslist[i][1]] IN
        item.exists /\ item.keysDir /\ f \in DOMAIN item.files}

FirstCarrier(f) == CHOOSE i \in Carriers(f) : \A j \in Carriers(f) : i <= j

\* C10 as stated: after install_mods has completed, every key file of every
\* entry whose source directory exists is under the install directory's
\* keys with the content of that entry's source file, whatever the keys
\* directory held before.
C10_KeysIdenticalToSource ==
    (ipc = "returned") =>
        \A f \in KeyFiles : \A i \in Carriers(f) :
            /\ f \in DOMAIN inst.keys
            /\ inst.keys[f] = cache[modslist[i][1]].files[f]

\* C10 amended: after install_mods has completed, every key file of every
\* entry whose source directory exists is under the install directory's
\* keys; it holds what the keys directory held at that path before the run
\* if there was such a file, and otherwise the content of the source file
\* of the first entry in mapping order that carries the path.
C10_KeysPresentNeverOverwritten ==
    (ipc = "returned") =>
        \A f \in KeyFiles :
            (Carriers(f) # {}) =>
                /\ f \in DOMAIN inst.keys
                /\ inst.keys[f] =
                      IF f \in DOMAIN startInst.keys THEN startInst.keys[f]
                      ELSE cache[modslist[FirstCarrier(f)][1]].files[f]

\* a run completed that installed an entry whose key file was already in
\* the keys directory with another content
C10_Witness ==
    /\ ipc = "returned"
    /\ \E f \in KeyFiles : \E i \in Carriers(f) :
          /\ outcomes[i] = "installed"
          /\ f \in DOMAIN startInst.keys
          /\ startInst.keys[f] # cache[modslist[i][1]].files[f]

---------------------------------------------------------------------------
(* The server launcher run on a mapping                                    *)

ProcResults == {"exit0", "nonzero", "missing"}

ServerLists ==
    {m \in Mappings(MaxMods, SafeNames) : Cardinality(DictKeys(m)) = Len(m)}

InitServer ==
    /\ modslist \in ServerLists
    /\ proc \in ProcResults
    /\ srvOut = NotCalled
    /\ cache = <<>> /\ inst = EmptyDir /\ ipc = "idle" /\ idx = 0
    /\ outcomes = <<>> /\ startInst = EmptyDir /\ prev = NoRun /\ runs = 0
    /\ InitCfgIdle /\ InitParseIdle /\ InitMainIdle

CallRunServer ==
    /\ ~srvOut.called
    /\ LET r == run_server(modslist, proc) IN
         srvOut' = [called |-> TRUE, exc |-> r.exc, hasModArg |-> r.hasModArg,
                    mods |-> r.mods, printed |-> r.printed]
    /\ UNCHANGED <<proc, cfgVars, parseVars, instVars, mainVars>>

NextServer == CallRunServer

SpecServer == InitServer /\ [][NextServer]_vars

\* the tokens @<name> of the entries from i on, with a semicolon between
\* each two
RECURSIVE Joined(_, _)
Joined(list, i) ==
    IF i > Len(list) THEN <<>>
    ELSE <<"@">> \o list[i][2]
         \o (IF i < Len(list) THEN <<";">> ELSE <<>>)
         \o Joined(list, i + 1)

\* C8: run_server passes no mod argument for an empty mapping and, for a
\* mapping of n >= 1 entries, the n tokens @<content-name> in mapping
\* order with n-1 semicolons between them.
C8_ModArgument ==
    srvOut.called =>
        IF Len(modslist) = 0 THEN ~srvOut.hasModArg
        ELSE srvOut.hasModArg /\ srvOut.mods = Joined(modslist, 1)

---------------------------------------------------------------------------
(* lines 77-148 and 272-292: the orchestrator                              *)

\* lines 77-82; os.path.exists(None) raises TypeError
check_if_steamcmd_is_installed(g, d) ==
    IF g["steamcmd_dir"] = None THEN "TypeError"
    ELSE IF ~d.steamcmdDir THEN "Exception"
    ELSE IF ~d.steamcmdExe THEN "Exception"
    ELSE ""

\* lines 84-138: serverDZ.cfg exists afterwards
create_if_missing_default_server_cfg(d) == [d EXCEPT !.serverCfg = TRUE]

\* lines 140-148: modslist.csv (line 19) exists afterwards
create_if_missing_empty_modslist(d) == [d EXCEPT !.modsCsv = TRUE]

\* a handler that names one exception class only
CatchesValueErrorOnly(e) == e = "ValueError"

\* line 288, "except Exception": every exception the steps raise is an
\* instance of Exception
Catches(e) ==
    e \in {"Exception", "ValueError", "TypeError", "FileNotFoundError", "FileExistsError"}

\* the configuration a process that imported the module has assigned to
\* its configuration variables before calling main
Configured == [k \in ConfigKeys |-> Meant(k, "bob")]

MainConfigs ==
    {[exists |-> FALSE, shape |-> [k \in ConfigKeys |-> "none"], extra |-> "none"],
     [exists |-> TRUE, shape |-> [k \in ConfigKeys |-> "plain"], extra |-> "none"],
     [exists |-> TRUE, shape |-> [k \in ConfigKeys |-> "comment"], extra |-> "none"],
     [exists |-> TRUE, shape |-> [k \in ConfigKeys |-> "comment"], extra |-> "junk#"]}

MainLines ==
    {[kind |-> "entry", id |-> "1", name |-> <<"A">>, comment |-> TRUE],
     [kind |-> "entry", id |-> "2", name |-> <<"B">>, comment |-> TRUE],
     [kind |-> "entry", id |-> "2", name |-> <<"B">>, comment |-> FALSE],
     [kind |-> "badId", id |-> "1", name |-> <<"A">>, comment |-> TRUE]}

MainModFiles == UNION {[1..n -> MainLines] : n \in 0..MaxLines}

FetchedWithKey == [exists |-> TRUE, keysDir |-> TRUE, files |-> [f \in KeyFiles |-> "x"]]

MainCaches ==
    {[i \in ModIds |-> FetchedWithKey],
     [i \in ModIds |-> IF i = 1 THEN FetchedWithKey ELSE Absent]}

\* The configuration globals are None when the file is run as a script
\* (lines 11-15, 294-295) and hold values when main is called by a process
\* that imported the module and assigned them.
InitMain ==
    /\ \E c \in MainConfigs :
          /\ cfgFile = [exists |-> c.exists,
                        lines |-> IF c.exists THEN ConfigLines(c.shape, "bob", c.extra)
                                  ELSE <<>>]
          /\ cfgWant = [wellFormed |-> c.exists /\ WellFormed(c.shape, c.extra),
                        record |-> [k \in ConfigKeys |->
                                      IF c.shape[k] = "none" THEN None ELSE Meant(k, "bob")]]
    /\ globals \in {NoConfig, Configured}
    /\ cfgOut = NotCalled
    /\ \/ modsFile = [exists |-> FALSE, lines |-> <<>>] /\ modsWant = <<>>
       \/ \E w \in MainModFiles :
             /\ modsWant = w
             /\ modsFile = [exists |-> TRUE,
                            lines |-> [i \in 1..Len(w) |-> LineText(w[i])]]
    /\ parseOut = NotCalled
    /\ modslist = <<>>
    /\ cache \in MainCaches
    /\ inst \in {[exists |-> FALSE, links |-> <<>>, keys |-> <<>>], EmptyDir}
    /\ ipc = "idle" /\ idx = 0 /\ outcomes = <<>> /\ prev = NoRun /\ runs = 0
    /\ startInst = inst
    /\ proc \in ProcResults
    /\ srvOut = NotCalled
    /\ disk \in {d \in [steamcmdDir : BOOLEAN, steamcmdExe : BOOLEAN,
                        serverCfg : {FALSE}, modsCsv : BOOLEAN] :
                    d.steamcmdExe => d.steamcmdDir}
    /\ pc = "start"
    /\ trace = <<>>
    /\ exc = ""
    /\ diag = FALSE

\* a step of the try block raises e: control passes to line 288
Raise(e) ==
    /\ exc' = e
    /\ pc' = IF Catches(e) THEN "except" ELSE "crashed"

\* line 274
MainLoadConfig ==
    /\ pc = "start"
    /\ LET r == load_manager_config(cfgFile, globals) IN
         /\ globals' = r.globals
         /\ cfgOut' = [called |-> TRUE, exc |-> r.exc, missing |-> r.missing,
                       locals |-> r.locals]
         /\ IF r.exc # ""
            THEN Raise(r.exc) /\ trace' = trace
            ELSE pc' = "ConfigLoaded" /\ trace' = Append(trace, "ConfigLoaded") /\ exc' = exc
    /\ UNCHANGED <<cfgFile, cfgWant, parseVars, instVars, srvVars, disk, diag>>

\* line 276
MainCheckPrereqs ==
    /\ pc = "ConfigLoaded"
    /\ LET e == check_if_steamcmd_is_installed(globals, disk) IN
         IF e # ""
         THEN Raise(e) /\ trace' = trace
         ELSE pc' = "PrereqsChecked" /\ trace' = Append(trace, "PrereqsChecked") /\ exc' = exc
    /\ UNCHANGED <<cfgVars, parseVars, instVars, srvVars, disk, diag>>

\* lines 277-278
MainEnsureTemplates ==
    /\ pc = "PrereqsChecked"
    /\ disk' = create_if_missing_empty_modslist(create_if_missing_default_server_cfg(disk))
    /\ pc' = "TemplatesEnsured"
    /\ trace' = Append(trace, "TemplatesEnsured")
    /\ UNCHANGED <<cfgVars, parseVars, instVars, srvVars, exc, diag>>

\* line 282: the file parsed is ./modslist.txt
MainParse ==
    /\ pc = "TemplatesEnsured"
    /\ LET r == parse_modslist(modsFile) IN
         /\ parseOut' = [called |-> TRUE, exc |-> r.exc, why |-> r.why, data |-> r.data]
         /\ IF r.exc # ""
            THEN Raise(r.exc) /\ trace' = trace /\ modslist' = modslist
            ELSE /\ pc' = "ModListParsed"
                 /\ trace' = Append(trace, "ModListParsed")
                 /\ modslist' = r.data
                 /\ exc' = exc
    /\ UNCHANGED <<cfgVars, modsFile, modsWant, cache, inst, ipc, idx, outcomes,
                   startInst, prev, runs, srvVars, disk, diag>>

\* lines 283-285
MainInstall ==
    /\ pc = "ModListParsed"
    /\ IF Len(modslist) > 0
       THEN LET r == install_mods(inst, cache, modslist) IN
              /\ inst' = r.inst
              /\ outcomes' = r.outcomes
              /\ IF r.exc # ""
                 THEN Raise(r.exc) /\ trace' = trace
                 ELSE /\ pc' = "ContentInstalled"
                      /\ trace' = Append(trace, "ContentInstalled")
                      /\ exc' = exc
       ELSE /\ pc' = "ContentInstalled"
            /\ trace' = Append(trace, "ContentInstalled")
            /\ UNCHANGED <<inst, outcomes, exc>>
    /\ UNCHANGED <<cfgVars, parseVars, modslist, cache, ipc, idx, startInst, prev,
                   runs, srvVars, disk, diag>>

\* line 287: run_server is invoked; when it returns, control is at line 292
MainRunServer ==
    /\ pc = "ContentInstalled"
    /\ LET r == run_server(modslist, proc) IN
         /\ srvOut' = [called |-> TRUE, exc |-> r.exc, hasModArg |-> r.hasModArg,
                       mods |-> r.mods, printed |-> r.printed]
         /\ trace' = Append(trace, "ServerLaunched")
         /\ IF r.exc # "" THEN Raise(r.exc) ELSE pc' = "prompt" /\ exc' = exc
    /\ UNCHANGED <<cfgVars, parseVars, instVars, proc, disk, diag>>

\* lines 288-290: the diagnostic is printed, then control is at line 292
MainExcept ==
    /\ pc = "except"
    /\ diag' = TRUE
    /\ trace' = Append(trace, "Failed")
    /\ pc' = "prompt"
    /\ UNCHANGED <<cfgVars, parseVars, instVars, srvVars, disk, exc>>

\* line 292: the operator presses Enter
MainExit ==
    /\ pc = "prompt"
    /\ pc' = "exited"
    /\ UNCHANGED <<cfgVars, parseVars, instVars, srvVars, disk, trace, exc, diag>>

NextMain ==
    \/ MainLoadConfig \/ MainCheckPrereqs \/ MainEnsureTemplates \/ MainParse
    \/ MainInstall \/ MainRunServer \/ MainExcept \/ MainExit

SpecMain == InitMain /\ [][NextMain]_vars

\* control reaches the except block once a step has raised
SpecMainFair == SpecMain /\ WF_vars(MainExcept)

RunEnded == pc \in {"prompt", "exited"}

Launched == "ServerLaunched" \in Range(trace)

EarlierSteps ==
    <<"ConfigLoaded", "PrereqsChecked", "TemplatesEnsured", "ModListParsed",
      "ContentInstalled">>

\* a complete valid manager config, the tool directory and executable, a
\* valid mod-list file and an install directory
ValidStart ==
    /\ cfgWant.wellFormed
    /\ disk.steamcmdDir /\ disk.steamcmdExe
    /\ modsFile.exists
    /\ \A i \in 1..Len(modsWant) : modsWant[i].kind = "entry"
    /\ inst.exists

\* C5: a run of main has invoked run_server exactly when the five earlier
\* steps succeeded in order, nothing is executed after a failed step, and a
\* run started with a complete valid manager config, the tool directory and
\* executable and a valid mod-list file has invoked run_server.
C5_StepGating ==
    RunEnded =>
        /\ Launched <=> (Len(trace) >= 5 /\ SubSeq(trace, 1, 5) = EarlierSteps)
        /\ \A i \in 1..Len(trace) : trace[i] = "Failed" => i = Len(trace)
        /\ ValidStart => Launched

\* C6: once a step of main has raised, the run gets to the exit prompt with
\* the diagnostic printed, and no run ends in an unhandled crash.
C6_FailureContained ==
    /\ [](pc # "crashed")
    /\ (exc # "" /\ pc # "exited")
          ~> (pc = "prompt" /\ diag /\ "Failed" \in Range(trace))

\* a run whose step raised is at the exit prompt
C6_Witness == pc = "prompt" /\ exc # "" /\ diag

\* C7: a run started without the mod-list file (and with a complete valid
\* manager config, the tool present and a server that starts) does not
\* fail: it installs nothing and launches the server without a mod
\* argument.
C7_AbsentModListMeansNoMods ==
    (/\ RunEnded
     /\ ~modsFile.exists
     /\ cfgWant.wellFormed /\ disk.steamcmdDir /\ disk.steamcmdExe
     /\ proc # "missing") =>
        /\ exc = ""
        /\ Launched
        /\ ~srvOut.hasModArg
        /\ inst = startInst

=============================================================================
